---------------------------- MODULE Spec2Model ----------------------------
(***************************************************************************)
(* Model of the holograph-rs network monitor (src/src/main.rs): the block  *)
(* watcher spawned by NetworkMonitor::network_subscribe, the log task and  *)
(* the block-job consumer task spawned by run, and the state they share    *)
(* (current_block_height, block_jobs, the log channel, the monitor mutex). *)
(*                                                                         *)
(* Each tokio task is a process with a program counter; one action is one  *)
(* run of a task between two suspension points (.await).  A mutex that is  *)
(* taken and dropped without a suspension point in between is part of the  *)
(* action that takes it; a mutex that is held across a suspension point is *)
(* a variable (bj_lock, mon_lock).                                         *)
(*                                                                         *)
(* The Ctrl+C branch of run (main.rs:706-720) ends the process and with it *)
(* every behaviour; it is not an action of the model.                      *)
(***************************************************************************)
EXTENDS Integers, Sequences, FiniteSets, TLC

\* ------------------------------------------------------------------ bounds
\* Number of block notifications the watcher's stream delivers.
MaxObs == 3
\* Block numbers the chain reports are 0..MaxHeight.
MaxHeight == 2
\* the largest attempts argument given to retry
MaxAttempts == 3

\* --------------------------------------------------------------- constants
\* mpsc::channel(32)
ChannelCapacity == 32

\* NetworkMonitor::new: networks: vec!["optimism"]
Networks == {"optimism"}

\* Option<T>: None is the empty sequence, Some(x) the one-element sequence.
None == <<>>
Some(x) == <<x>>

Heights == 0..MaxHeight

VARIABLES
    main_pc,               \* position of run()
    wpc,                   \* position of the watcher task
    last_block,            \* watcher local: Option<u64>
    current_block_u64,     \* watcher local: height of the notified block
    block,                 \* watcher local: loop variable of the gap loop
    nobs,                  \* notifications delivered by the stream so far
    current_block_height,  \* HashMap<String, u64> (a partial function)
    block_jobs,            \* HashMap<String, Vec<BlockJob>>
    bj_lock,               \* holder of the block_jobs mutex
    mon_lock,              \* holder of the monitor mutex
    rx,                    \* messages in the log channel
    lpc,                   \* position of the log task
    log_msg,               \* log task local: Option<LogMessage>
    cpc,                   \* position of the consumer task
    block_job,             \* consumer local: Option<BlockJob>
    in_process,            \* the active process_block calls: the job, and
                           \*   the result of get_block_with_txs once returned
    seg,                   \* history: the current notification and what the
                           \*   watcher has done for it so far
    first_obs,             \* history: Option, the first observed height
    max_obs,               \* history: Option, the highest observed height
    enq,                   \* history: the heights enqueued so far, in order,
                           \*   each at its first occurrence
    handled,               \* history: handled[i] is the number of times job i
                           \*   was handed to process_block
    contracts,             \* HashMap<String, Contract>: name -> address
    bloom_filters,         \* HashMap<EventType, BloomFilter>
    build_filter_calls,    \* history: the arguments of the build_filter calls
    logs_fetched,          \* history: the heights get_logs was called for
    handed_over,           \* history: the interesting transactions handed to
                           \*   transaction processing
    retry_pc,              \* position of a retry call
    attempts,              \* retry argument: usize
    interval,              \* retry argument: milliseconds
    retry_i,               \* retry local: the loop variable i
    func_calls,            \* history: the results of the calls of func
    sleeps,                \* history: the durations retry slept, in order
    logged,                \* history: the errors given to structured_log_error
    retry_result           \* Option: what retry returned

vars == <<main_pc, wpc, last_block, current_block_u64, block, nobs,
          current_block_height, block_jobs, bj_lock, mon_lock, rx, lpc,
          log_msg, cpc, block_job, in_process, seg, first_obs, max_obs,
          enq, handled, contracts, bloom_filters, build_filter_calls,
          logs_fetched, handed_over, retry_pc, attempts, interval, retry_i,
          func_calls, sleeps, logged, retry_result>>

watcher_locals == <<last_block, current_block_u64, block, nobs>>
log_vars == <<lpc, log_msg>>
consumer_vars == <<cpc, block_job, in_process, handled>>
history == <<seg, first_obs, max_obs, enq>>
index_vars == <<contracts, bloom_filters, build_filter_calls>>
downstream == <<logs_fetched, handed_over>>
retry_vars == <<retry_pc, attempts, interval, retry_i, func_calls, sleeps,
                logged, retry_result>>
task_vars == <<main_pc, wpc, watcher_locals, current_block_height,
               block_jobs, bj_lock, mon_lock, rx, log_vars, consumer_vars,
               history>>

\* ----------------------------------------------------------------- helpers
RECURSIVE SelectEv(_, _)
\* The events of history s whose kind is in kinds, in order.
SelectEv(s, kinds) ==
    IF s = <<>> THEN <<>>
    ELSE IF Head(s).ev \in kinds
         THEN <<Head(s)>> \o SelectEv(Tail(s), kinds)
         ELSE SelectEv(Tail(s), kinds)

\* Ids are given to jobs in enqueue order: 1, 2, 3, ...
NextJobId == Len(handled) + 1

\* s, with x appended unless it occurs in s.
AppendNew(s, x) == IF \E k \in 1..Len(s) : s[k] = x THEN s ELSE Append(s, x)

\* HashMap::entry(k).or_insert_with(Vec::new)
Entry(m, k) == IF k \in DOMAIN m THEN m ELSE m @@ (k :> <<>>)

\* HashMap::insert(k, v)
Insert(m, k, v) == [x \in (DOMAIN m) \cup {k} |-> IF x = k THEN v ELSE m[x]]

\* bj.entry(network).or_insert_with(Vec::new).push(job)
PushJob(m, k, job) == [Entry(m, k) EXCEPT ![k] = Append(@, job)]

\* BlockJob { network, block }; id is the enqueue index (history only).
BlockJob(n, b, i) == [network |-> n, block |-> b, id |-> i]

\* provider.get_block(hash): Err, Ok(None), Ok(Some(block)) with
\* block.number: Option<U64>.
GetBlockResults ==
    {[ok |-> FALSE, blk |-> None]}
    \cup {[ok |-> TRUE, blk |-> None]}
    \cup {[ok |-> TRUE, blk |-> Some([number |-> None])]}
    \cup {[ok |-> TRUE, blk |-> Some([number |-> Some(h)])] : h \in Heights}

\* Mutant of BlockNumber: a lookup without a number counts as height 1.
BlockNumberOne(blk) ==
    IF blk # None
    THEN (IF blk[1].number # None THEN blk[1].number[1] ELSE 1)
    ELSE 1

\* main.rs:311-315
BlockNumber(blk) ==
    IF blk # None
    THEN (IF blk[1].number # None THEN blk[1].number[1] ELSE 0)
    ELSE 0

\* Mutant of IsDuplicate: the equal height is not recognised.
IsDuplicateNever(lb, cur) == FALSE

\* main.rs:320  lb == current_block_u64
IsDuplicate(lb, cur) == lb = cur

\* Mutant of HasGap: the next height counts as a gap.
HasGapInclusive(lb, cur) == lb + 1 <= cur

\* main.rs:325  lb + 1 < current_block_u64
HasGap(lb, cur) == lb + 1 < cur

\* Mutant of GapContinues: the gap range includes its upper end (..=).
GapContinuesInclusive(b, cur) == b <= cur

\* main.rs:331  for block in lb + 1..current_block_u64
GapFirst(lb) == lb + 1
GapContinues(b, cur) == b < cur

\* ------------------------------------------------------------------- Init
\* The state of the tasks and of their histories after
\* HolographMonitor::new() and mpsc::channel(32).
TasksInit ==
    /\ main_pc = "initialize_ethers"
    /\ wpc = "not_spawned"
    /\ last_block = None
    /\ current_block_u64 = 0
    /\ block = 0
    /\ nobs = 0
    /\ current_block_height = <<>>
    /\ block_jobs = <<>>
    /\ bj_lock = "free"
    /\ mon_lock = "free"
    /\ rx = <<>>
    /\ lpc = "not_spawned"
    /\ log_msg = None
    /\ cpc = "not_spawned"
    /\ block_job = None
    /\ in_process = {}
    /\ seg = <<>>
    /\ first_obs = None
    /\ max_obs = None
    /\ enq = <<>>
    /\ handled = <<>>

\* HolographMonitor::new(): no contract, no bloom filter.
IndexInit ==
    /\ contracts = <<>>
    /\ bloom_filters = <<>>
    /\ build_filter_calls = {}

\* No retry call is active: run() and the tasks never call retry.
RetryIdle ==
    /\ retry_pc = "idle"
    /\ attempts = 0
    /\ interval = 0
    /\ retry_i = 0
    /\ func_calls = <<>>
    /\ sleeps = <<>>
    /\ logged = <<>>
    /\ retry_result = None

Init ==
    /\ TasksInit
    /\ IndexInit
    /\ logs_fetched = {}
    /\ handed_over = <<>>
    /\ RetryIdle

\* ------------------------------------------------------------------- run()
\* main.rs:187-216: init_contracts resolves the contracts in this order,
\* each after an awaited chain call that may fail.
ContractOrder ==
    <<"holograph", "bridge", "factory", "interfaces", "registry", "operator">>

\* The addresses a contract may be deployed at.
Addresses == {"0xA1", "0xB2"}

\* The contracts maps initialize_ethers can leave behind: the first n
\* contracts of ContractOrder, each at some address.
ContractsResolved(n) == [{ContractOrder[k] : k \in 1..n} -> Addresses]

\* The deployment run() starts against.
Deployed == [name \in {ContractOrder[k] : k \in 1..Len(ContractOrder)} |-> "0xA1"]

\* m restricted to the first n contracts of ContractOrder.
Resolved(m, n) == [name \in {ContractOrder[k] : k \in 1..n} |-> m[name]]

\* Mutant of WatcherAfterInitError: the watcher is spawned before the
\* result of initialize_ethers is looked at.
WatcherSpawnedFirst == "watch_blocks"

\* main.rs:656-659: the error return precedes network_subscribe (674).
WatcherAfterInitError == "not_spawned"

\* main.rs:656-659: initialize_ethers fails (at PROVIDER_URL, get_env, one
\* of the contract lookups or getMessagingModule), run returns the error.
InitializeEthersErr ==
    /\ main_pc = "initialize_ethers"
    /\ main_pc' = "failed"
    /\ wpc' = WatcherAfterInitError
    /\ \E n \in 0..Len(ContractOrder) : contracts' = Resolved(Deployed, n)
    /\ UNCHANGED <<watcher_locals, current_block_height, block_jobs,
                   bj_lock, mon_lock, rx, log_vars, consumer_vars, history>>
    /\ UNCHANGED <<bloom_filters, build_filter_calls, downstream, retry_vars>>

\* main.rs:656-675: initialize_ethers succeeds (providers["optimism"] is
\* set, so the lookup at 662 succeeds) and network_subscribe spawns the
\* watcher.
InitializeEthersOk ==
    /\ main_pc = "initialize_ethers"
    /\ main_pc' = "spawn_log"
    /\ wpc' = "watch_blocks"
    /\ contracts' = Deployed
    /\ UNCHANGED <<watcher_locals, current_block_height, block_jobs,
                   bj_lock, mon_lock, rx, log_vars, consumer_vars, history>>
    /\ UNCHANGED <<bloom_filters, build_filter_calls, downstream, retry_vars>>

\* main.rs:678-684
SpawnLogTask ==
    /\ main_pc = "spawn_log"
    /\ main_pc' = "spawn_consumer"
    /\ lpc' = "recv"
    /\ UNCHANGED <<wpc, watcher_locals, current_block_height, block_jobs,
                   bj_lock, mon_lock, rx, log_msg, consumer_vars, history>>
    /\ UNCHANGED <<index_vars, downstream, retry_vars>>

\* main.rs:687-689: monitor.lock().await, clone block_jobs, spawn.
SpawnConsumer ==
    /\ main_pc = "spawn_consumer"
    /\ mon_lock = "free"
    /\ main_pc' = "running"
    /\ cpc' = "lock"
    /\ UNCHANGED <<wpc, watcher_locals, current_block_height, block_jobs,
                   bj_lock, mon_lock, rx, log_vars, block_job, in_process,
                   handled, history>>
    /\ UNCHANGED <<index_vars, downstream, retry_vars>>

\* ------------------------------------------------------- the block watcher
\* History events.  prev is last_block at the time of the event; for a
\* height write it is the value CurrentHeight held before the write.
Ev(kind, h, prev) == [ev |-> kind, h |-> h, prev |-> prev]

\* History: whether the block lookup of a notification gave a number.
ObsKind(blk) ==
    IF blk = None \/ blk[1].number = None THEN "obs_no_number" ELSE "obs"

\* HashMap::get(k).cloned(): Option
Get(m, k) == IF k \in DOMAIN m THEN Some(m[k]) ELSE None

\* main.rs:296-297: provider.watch_blocks().await.expect(..)
WatchBlocks ==
    /\ wpc = "watch_blocks"
    /\ \E ok \in BOOLEAN : wpc' = IF ok THEN "next" ELSE "panicked"
    /\ UNCHANGED <<main_pc, watcher_locals, current_block_height, block_jobs,
                   bj_lock, mon_lock, rx, log_vars, consumer_vars, history>>
    /\ UNCHANGED <<index_vars, downstream, retry_vars>>

\* main.rs:303: stream.next().await yields a block hash; the watcher then
\* awaits get_block.
StreamNext ==
    /\ wpc = "next"
    /\ nobs < MaxObs
    /\ nobs' = nobs + 1
    /\ wpc' = "get_block"
    /\ UNCHANGED <<main_pc, last_block, current_block_u64, block,
                   current_block_height, block_jobs, bj_lock, mon_lock, rx,
                   log_vars, consumer_vars, history>>
    /\ UNCHANGED <<index_vars, downstream, retry_vars>>

\* main.rs:303: stream.next().await yields None, the while loop and the
\* task end.
StreamEnd ==
    /\ wpc = "next"
    /\ wpc' = "ended"
    /\ UNCHANGED <<main_pc, watcher_locals, current_block_height, block_jobs,
                   bj_lock, mon_lock, rx, log_vars, consumer_vars, history>>
    /\ UNCHANGED <<index_vars, downstream, retry_vars>>

\* main.rs:305-338: get_block returns; the block number is extracted and
\* compared with last_block.
GetBlock ==
    /\ wpc = "get_block"
    /\ \E res \in GetBlockResults :
         IF ~res.ok
         THEN /\ wpc' = "panicked"
              /\ UNCHANGED <<current_block_u64, history>>
         ELSE LET cur == BlockNumber(res.blk) IN
              /\ current_block_u64' = cur
              /\ seg' = <<Ev(ObsKind(res.blk), cur, last_block)>>
              /\ first_obs' = IF first_obs = None THEN Some(cur) ELSE first_obs
              /\ max_obs' = IF max_obs = None \/ max_obs[1] < cur
                               THEN Some(cur) ELSE max_obs
              /\ UNCHANGED enq
              /\ wpc' = IF last_block # None /\ IsDuplicate(last_block[1], cur)
                          THEN "next"
                        ELSE IF last_block # None /\ HasGap(last_block[1], cur)
                          THEN "gap_log"
                        ELSE "set_height"
    /\ UNCHANGED <<main_pc, last_block, block, nobs, current_block_height,
                   block_jobs, bj_lock, mon_lock, rx, log_vars, consumer_vars>>
    /\ UNCHANGED <<index_vars, downstream, retry_vars>>

\* main.rs:327-331: tx.send(gap message).await, then the gap loop starts.
SendGapLog ==
    /\ wpc = "gap_log"
    /\ Len(rx) < ChannelCapacity
    /\ rx' = Append(rx, [kind |-> "resuming", h |-> current_block_u64])
    /\ seg' = Append(seg, Ev("resuming", current_block_u64, last_block))
    /\ UNCHANGED <<first_obs, max_obs, enq>>
    /\ block' = GapFirst(last_block[1])
    /\ wpc' = IF GapContinues(GapFirst(last_block[1]), current_block_u64)
                THEN "gap_push" ELSE "set_height"
    /\ UNCHANGED <<main_pc, last_block, current_block_u64, nobs,
                   current_block_height, block_jobs, bj_lock, mon_lock,
                   log_vars, consumer_vars>>
    /\ UNCHANGED <<index_vars, downstream, retry_vars>>

\* main.rs:331-336: one iteration of the gap loop.
PushGapJob ==
    /\ wpc = "gap_push"
    /\ bj_lock = "free"
    /\ block_jobs' = PushJob(block_jobs, "optimism",
                             BlockJob("optimism", block, NextJobId))
    /\ seg' = Append(seg, Ev("job", block, last_block))
    /\ enq' = AppendNew(enq, block)
    /\ handled' = Append(handled, 0)
    /\ block' = block + 1
    /\ wpc' = IF GapContinues(block + 1, current_block_u64)
                THEN "gap_push" ELSE "set_height"
    /\ UNCHANGED <<main_pc, last_block, current_block_u64, nobs,
                   current_block_height, bj_lock, mon_lock, rx, log_vars,
                   cpc, block_job, in_process, first_obs, max_obs>>
    /\ UNCHANGED <<index_vars, downstream, retry_vars>>

\* main.rs:340-346: last_block = Some(current), CurrentHeight insert.
UpdateHeight ==
    /\ wpc = "set_height"
    /\ last_block' = Some(current_block_u64)
    /\ current_block_height' =
           Insert(current_block_height, "optimism", current_block_u64)
    /\ seg' = Append(seg, Ev("height", current_block_u64,
                             Get(current_block_height, "optimism")))
    /\ UNCHANGED <<first_obs, max_obs, enq>>
    /\ wpc' = "push_job"
    /\ UNCHANGED <<main_pc, current_block_u64, block, nobs, block_jobs,
                   bj_lock, mon_lock, rx, log_vars, consumer_vars>>
    /\ UNCHANGED <<index_vars, downstream, retry_vars>>

\* main.rs:349-355: the job of the notified block.
PushCurrentJob ==
    /\ wpc = "push_job"
    /\ bj_lock = "free"
    /\ block_jobs' = PushJob(block_jobs, "optimism",
                             BlockJob("optimism", current_block_u64, NextJobId))
    /\ seg' = Append(seg, Ev("job", current_block_u64, last_block))
    /\ enq' = AppendNew(enq, current_block_u64)
    /\ handled' = Append(handled, 0)
    /\ wpc' = "new_log"
    /\ UNCHANGED <<main_pc, watcher_locals, current_block_height, bj_lock,
                   mon_lock, rx, log_vars, cpc, block_job, in_process,
                   first_obs, max_obs>>
    /\ UNCHANGED <<index_vars, downstream, retry_vars>>

\* main.rs:358-362: tx.send(new block message).await
SendNewBlockLog ==
    /\ wpc = "new_log"
    /\ Len(rx) < ChannelCapacity
    /\ rx' = Append(rx, [kind |-> "new_block", h |-> current_block_u64])
    /\ seg' = Append(seg, Ev("new_block", current_block_u64, last_block))
    /\ UNCHANGED <<first_obs, max_obs, enq>>
    /\ wpc' = "next"
    /\ UNCHANGED <<main_pc, watcher_locals, current_block_height, block_jobs,
                   bj_lock, mon_lock, log_vars, consumer_vars>>
    /\ UNCHANGED <<index_vars, downstream, retry_vars>>

\* ------------------------------------------------------------ the log task
\* main.rs:680: rx.recv().await
LogRecv ==
    /\ lpc = "recv"
    /\ rx # <<>>
    /\ log_msg' = Some(Head(rx))
    /\ rx' = Tail(rx)
    /\ lpc' = "lock_monitor"
    /\ UNCHANGED <<main_pc, wpc, watcher_locals, current_block_height,
                   block_jobs, bj_lock, mon_lock, consumer_vars, history>>
    /\ UNCHANGED <<index_vars, downstream, retry_vars>>

\* main.rs:681-683: monitor.lock().await, structured_log, guard dropped.
LogPrint ==
    /\ lpc = "lock_monitor"
    /\ mon_lock = "free"
    /\ log_msg' = None
    /\ lpc' = "recv"
    /\ UNCHANGED <<main_pc, wpc, watcher_locals, current_block_height,
                   block_jobs, bj_lock, mon_lock, rx, consumer_vars, history>>
    /\ UNCHANGED <<index_vars, downstream, retry_vars>>

\* ------------------------------------------------- the block-job consumer
\* main.rs:696  jobs_for_network.pop(): Vec::pop takes the last element.
PopJob(q) == q[Len(q)]
PopRest(q) == SubSeq(q, 1, Len(q) - 1)

\* Mutant of ProcessBlockCall: process_block is started without being
\* awaited and without the monitor guard.
ProcessBlockSpawned == [cpc |-> "pop", mon_lock |-> "free"]

\* main.rs:697-698: the consumer holds the monitor guard and awaits
\* process_block before it goes on.
ProcessBlockCall == [cpc |-> "process_block", mon_lock |-> "consumer"]

\* Mutant of AfterSleep: the consumer leaves its loop when it found the
\* queue empty.
AfterSleepStop == "stopped"

\* main.rs:702: after the sleep the loop starts over.
AfterSleep == "lock"

\* The protocol events whose logs a fetched block may truly hold (one kind
\* stands for all of them).
BlockEvents == {"BridgeableContractDeployed"}

\* get_block_with_txs: Err, Ok(None), Ok(Some(block)); events are the event
\* kinds that truly occur in the block's logs.
FetchResults ==
    {[kind |-> "err", events |-> {}], [kind |-> "no_block", events |-> {}]}
    \cup {[kind |-> "block", events |-> e] : e \in SUBSET BlockEvents}

\* The chain the run is against: which blocks hold a protocol event is a
\* fact of the chain (here the blocks of odd height).
ChainEvents(h) == IF h % 2 = 1 THEN BlockEvents ELSE {}

\* What get_block_with_txs may return for a job: a block fetched twice has
\* the same logs.
FetchResultsFor(job) ==
    {r \in FetchResults : r.kind = "block" => r.events = ChainEvents(job.block)}

\* main.rs:378: process_block calls get_block_with_txs once, directly.
FetchAttempts == 1

\* A process_block call that awaits get_block_with_txs.
Call(job) ==
    [job |-> job, fetches |-> FetchAttempts, block_with_txs |-> None,
     is_recent_block |-> None]

\* A u64 is held as four 16-bit limbs, the least significant first.
LimbBase == 65536
Limbs == 1..4

\* The u64 of a number below 2^31.
U64(n) == [k \in Limbs |-> IF k = 1 THEN n % LimbBase
                           ELSE IF k = 2 THEN (n \div LimbBase) % LimbBase
                           ELSE 0]

RECURSIVE BorrowInto(_, _, _)
\* The borrow that the subtraction a - b carries into limb k.
BorrowInto(a, b, k) ==
    IF k = 1 THEN 0
    ELSE IF a[k - 1] - b[k - 1] - BorrowInto(a, b, k - 1) < 0 THEN 1 ELSE 0

\* u64::wrapping_sub: the difference modulo 2^64.
WrappingSub(a, b) ==
    [k \in Limbs |-> (a[k] - b[k] - BorrowInto(a, b, k)) % LimbBase]

\* a < n for a u64 a and a number n below LimbBase.
U64LessThan(a, n) == a[1] < n /\ \A k \in Limbs \ {1} : a[k] = 0

\* main.rs:396
RecencyWindow == 5

\* main.rs:389-396: .get(&job.network).cloned().unwrap_or_default(), then
\* current_height.wrapping_sub(job.block) < 5
IsRecentBlock(heights, job) ==
    LET current_height == IF job.network \in DOMAIN heights
                          THEN heights[job.network] ELSE 0
    IN U64LessThan(WrappingSub(U64(current_height), U64(job.block)),
                   RecencyWindow)

\* Mutant of QueueAfterReturn: a job whose fetch failed is put back.
QueueRequeueOnError(q, job, res) ==
    IF res.kind = "err" THEN Append(q, job) ELSE q

\* main.rs:380-440: no branch of the match touches block_jobs.
QueueAfterReturn(q, job, res) == q

\* Mutant of ConsumerAfterReturn: a missing block ends the consumer task.
ConsumerStopsOnNoBlock(res) ==
    IF res.kind = "no_block" THEN "panicked" ELSE "pop"

\* main.rs:696-699: process_block returns () on every branch and the
\* while-let loop pops the next job.
ConsumerAfterReturn(res) == "pop"

\* Mutant of MonitorGuardDropped: the monitor guard outlives the call.
MonitorGuardKept == "consumer"

\* main.rs:697-699: monitor_guard is a local of the while-let body and is
\* dropped when process_block has returned.
MonitorGuardDropped == "free"

\* main.rs:692-694: block_jobs.lock().await, entry("optimism").or_insert.
ConsumerLock ==
    /\ cpc = "lock"
    /\ bj_lock = "free"
    /\ bj_lock' = "consumer"
    /\ block_jobs' = Entry(block_jobs, "optimism")
    /\ cpc' = "pop"
    /\ UNCHANGED <<main_pc, wpc, watcher_locals, current_block_height,
                   mon_lock, rx, log_vars, block_job, in_process, handled,
                   history>>
    /\ UNCHANGED <<index_vars, downstream, retry_vars>>

\* main.rs:696: pop() returns Some(job); the consumer then awaits the
\* monitor mutex.
ConsumerPop ==
    /\ cpc = "pop"
    /\ block_jobs["optimism"] # <<>>
    /\ block_job' = Some(PopJob(block_jobs["optimism"]))
    /\ block_jobs' = [block_jobs EXCEPT !["optimism"] = PopRest(@)]
    /\ cpc' = "lock_monitor"
    /\ UNCHANGED <<main_pc, wpc, watcher_locals, current_block_height,
                   bj_lock, mon_lock, rx, log_vars, in_process, handled,
                   history>>
    /\ UNCHANGED <<index_vars, downstream, retry_vars>>

\* main.rs:696-702: pop() returns None; the block_jobs guard is dropped at
\* the end of the block and the consumer sleeps.
ConsumerRelease ==
    /\ cpc = "pop"
    /\ block_jobs["optimism"] = <<>>
    /\ bj_lock' = "free"
    /\ cpc' = "sleep"
    /\ UNCHANGED <<main_pc, wpc, watcher_locals, current_block_height,
                   block_jobs, mon_lock, rx, log_vars, block_job, in_process,
                   handled, history>>
    /\ UNCHANGED <<index_vars, downstream, retry_vars>>

\* main.rs:702
ConsumerWake ==
    /\ cpc = "sleep"
    /\ cpc' = AfterSleep
    /\ UNCHANGED <<main_pc, wpc, watcher_locals, current_block_height,
                   block_jobs, bj_lock, mon_lock, rx, log_vars, block_job,
                   in_process, handled, history>>
    /\ UNCHANGED <<index_vars, downstream, retry_vars>>

\* main.rs:697-698, 368-378: the monitor mutex is taken, process_block is
\* called and awaits get_block_with_txs.
ConsumerCallProcessBlock ==
    /\ cpc = "lock_monitor"
    /\ mon_lock = "free"
    /\ in_process' = in_process \cup {Call(block_job[1])}
    /\ handled' = [handled EXCEPT ![block_job[1].id] = @ + 1]
    /\ block_job' = None
    /\ cpc' = ProcessBlockCall.cpc
    /\ mon_lock' = ProcessBlockCall.mon_lock
    /\ UNCHANGED <<main_pc, wpc, watcher_locals, current_block_height,
                   block_jobs, bj_lock, rx, log_vars, history>>
    /\ UNCHANGED <<index_vars, downstream, retry_vars>>

\* main.rs:378-396: get_block_with_txs returns; for Ok(Some(block)) the
\* height table is read and is_recent_block is computed.
FetchReturn ==
    /\ \E c \in in_process :
       \E res \in FetchResultsFor(c.job) :
         /\ c.block_with_txs = None
         /\ in_process' =
              (in_process \ {c})
              \cup {[c EXCEPT
                       !.block_with_txs = Some(res),
                       !.is_recent_block =
                           IF res.kind = "block"
                           THEN Some(IsRecentBlock(current_block_height, c.job))
                           ELSE None]}
    /\ UNCHANGED <<main_pc, wpc, watcher_locals, current_block_height,
                   block_jobs, bj_lock, mon_lock, rx, log_vars, cpc,
                   block_job, handled, history>>
    /\ UNCHANGED <<index_vars, downstream, retry_vars>>

\* main.rs:398-440, 699: the rest of the match on the fetched block (the
\* use of is_recent_block, the bloom check, the log fetch and the hand-over
\* of interesting transactions are commented out);
\* process_block returns and the monitor guard is dropped.
ProcessBlockReturn ==
    /\ \E c \in in_process :
         /\ c.block_with_txs # None
         /\ in_process' = in_process \ {c}
         /\ block_jobs' = [k \in DOMAIN block_jobs |->
                             QueueAfterReturn(block_jobs[k], c.job,
                                              c.block_with_txs[1])]
         /\ IF cpc = "process_block"
            THEN /\ cpc' = ConsumerAfterReturn(c.block_with_txs[1])
                 /\ mon_lock' = MonitorGuardDropped
            ELSE UNCHANGED <<cpc, mon_lock>>
    /\ UNCHANGED <<main_pc, wpc, watcher_locals, current_block_height,
                   bj_lock, rx, log_vars, block_job, handled, history>>
    /\ UNCHANGED <<index_vars, downstream, retry_vars>>

\* ------------------------------------------------------------------- Next
Next ==
    \/ InitializeEthersErr
    \/ InitializeEthersOk
    \/ SpawnLogTask
    \/ SpawnConsumer
    \/ WatchBlocks
    \/ StreamNext
    \/ StreamEnd
    \/ GetBlock
    \/ SendGapLog
    \/ PushGapJob
    \/ UpdateHeight
    \/ PushCurrentJob
    \/ SendNewBlockLog
    \/ LogRecv
    \/ LogPrint
    \/ ConsumerLock
    \/ ConsumerPop
    \/ ConsumerRelease
    \/ ConsumerWake
    \/ ConsumerCallProcessBlock
    \/ FetchReturn
    \/ ProcessBlockReturn

Spec == Init /\ [][Next]_vars

\* The steps of run's start-up and of the consumer task.  At most one of
\* them is enabled in a state: the consumer exists only once run has stopped
\* spawning, and it is at one position at a time.
ConsumerProgress ==
    \/ SpawnLogTask
    \/ SpawnConsumer
    \/ ConsumerLock
    \/ ConsumerPop
    \/ ConsumerRelease
    \/ ConsumerWake
    \/ ConsumerCallProcessBlock
    \/ FetchReturn
    \/ ProcessBlockReturn

\* Fair scheduling of run and of the consumer task, and chain calls of
\* process_block that return.
LiveSpec == Spec /\ WF_vars(ConsumerProgress)

\* --------------------------------------------------- a full log channel
\* The notifications handled before the state ChannelInit describes: one
\* short of the channel's capacity, of heights 1, 0, 1, 0, ..., 1 (each is
\* neither equal to the height before it nor a gap, so each gave one
\* height write, one job and one new-block message).
Backlog == ChannelCapacity - 1
BacklogHeight(k) == k % 2

\* The notifications the stream still delivers from ChannelInit on.
ChannelObs == 2

\* The tasks after Backlog notifications during which the log task was
\* never scheduled and the consumer handled every job and went to sleep:
\* the channel holds Backlog messages.
ChannelInit ==
    /\ main_pc = "running"
    /\ wpc = "next"
    /\ last_block = Some(BacklogHeight(Backlog))
    /\ current_block_u64 = BacklogHeight(Backlog)
    /\ block = 0
    /\ nobs = MaxObs - ChannelObs
    /\ current_block_height = ("optimism" :> BacklogHeight(Backlog))
    /\ block_jobs = ("optimism" :> <<>>)
    /\ bj_lock = "free"
    /\ mon_lock = "free"
    /\ rx = [k \in 1..Backlog |->
               [kind |-> "new_block", h |-> BacklogHeight(k)]]
    /\ lpc = "recv"
    /\ log_msg = None
    /\ cpc = "sleep"
    /\ block_job = None
    /\ in_process = {}
    /\ seg = <<Ev("obs", BacklogHeight(Backlog),
                  Some(BacklogHeight(Backlog - 1))),
               Ev("height", BacklogHeight(Backlog),
                  Some(BacklogHeight(Backlog - 1))),
               Ev("job", BacklogHeight(Backlog),
                  Some(BacklogHeight(Backlog))),
               Ev("new_block", BacklogHeight(Backlog),
                  Some(BacklogHeight(Backlog)))>>
    /\ first_obs = Some(1)
    /\ max_obs = Some(1)
    /\ enq = <<1, 0>>
    /\ handled = [k \in 1..Backlog |-> 1]
    /\ contracts = Deployed
    /\ bloom_filters = <<>>
    /\ build_filter_calls = {}
    /\ logs_fetched = {}
    /\ handed_over = <<>>
    /\ RetryIdle

\* The steps of the three tasks once all of them run.
ChannelNext ==
    \/ StreamNext
    \/ StreamEnd
    \/ GetBlock
    \/ SendGapLog
    \/ PushGapJob
    \/ UpdateHeight
    \/ PushCurrentJob
    \/ SendNewBlockLog
    \/ LogRecv
    \/ LogPrint
    \/ ConsumerLock
    \/ ConsumerPop
    \/ ConsumerRelease
    \/ ConsumerWake
    \/ ConsumerCallProcessBlock
    \/ FetchReturn
    \/ ProcessBlockReturn

\* The steps of the log task.
LogProgress == LogRecv \/ LogPrint

\* The tasks from a nearly full log channel on, with fair scheduling of
\* the consumer and of the log task and chain calls of process_block that
\* return.
ChannelSpec ==
    /\ ChannelInit /\ [][ChannelNext]_vars
    /\ WF_vars(ConsumerProgress)
    /\ WF_vars(LogProgress)

TypeOK ==
    /\ main_pc \in {"initialize_ethers", "failed", "spawn_log",
                    "spawn_consumer", "running"}
    /\ wpc \in {"not_spawned", "watch_blocks", "next", "get_block", "gap_log",
                "gap_push", "set_height", "push_job", "new_log", "ended",
                "panicked"}
    /\ cpc \in {"not_spawned", "lock", "pop", "lock_monitor", "process_block",
                "sleep"}
    /\ lpc \in {"not_spawned", "recv", "lock_monitor"}
    /\ bj_lock \in {"free", "consumer"}
    /\ mon_lock \in {"free", "consumer"}
    /\ nobs \in 0..MaxObs
    /\ DOMAIN current_block_height \subseteq Networks
    /\ DOMAIN block_jobs \subseteq Networks

\* ------------------------------------------------------------------ retry
\* Result<T, Box<dyn Error>>
Ok(v) == <<"Ok", v>>
Err(e) == <<"Err", e>>

\* What a call of func may return.
FuncResults == {Ok("value"), Err("timeout"), Err("connection refused")}

\* The interval arguments (milliseconds).
Intervals == {0, 1000}

\* main.rs:544-550
MaxAttemptsError(n) ==
    <<"Err", "Maximum attempts reached, function did not succeed after", n>>

\* main.rs:554-557
UnexpectedError == Err("Unexpected error in retry loop")

\* retry argument network: the one network run() monitors.
RetryNetwork == CHOOSE n \in Networks : TRUE

\* main.rs:542: structured_log_error(network, &e.to_string())
StructuredLogError(network, msg) == [network |-> network, msg |-> msg]

\* Mutant of InRange: the range includes its upper end (0..=attempts).
InRangeInclusive(i, n) == i <= n

\* main.rs:538  for i in 0..attempts
InRange(i, n) == i < n

\* Mutant of IsOk: a successful call is taken for a failed one.
IsOkNever(r) == FALSE

\* main.rs:539-541  match func().await { Ok(result) => .., Err(e) => .. }
IsOk(r) == r[1] = "Ok"

\* Mutant of IsLastAttempt: the comparison is off by one.
IsLastAttemptOffByOne(i, n) == i = n

\* main.rs:543  i == attempts - 1 (evaluated inside the loop only, where
\* attempts >= 1, so the usize subtraction does not wrap)
IsLastAttempt(i, n) == i = n - 1

\* A call retry(network, func, attempts, interval) has just been made.
RetryCalled ==
    /\ retry_pc = "for"
    /\ attempts \in 0..MaxAttempts
    /\ interval \in Intervals
    /\ retry_i = 0
    /\ func_calls = <<>>
    /\ sleeps = <<>>
    /\ logged = <<>>
    /\ retry_result = None

RetryInit ==
    /\ TasksInit
    /\ IndexInit
    /\ logs_fetched = {}
    /\ handed_over = <<>>
    /\ RetryCalled

\* main.rs:538, 554-557: the head of `for i in 0..attempts`; when the
\* range is exhausted the function returns the error after the loop.
RetryFor ==
    /\ retry_pc = "for"
    /\ IF InRange(retry_i, attempts)
       THEN retry_pc' = "func" /\ UNCHANGED retry_result
       ELSE retry_pc' = "returned" /\ retry_result' = Some(UnexpectedError)
    /\ UNCHANGED <<attempts, interval, retry_i, func_calls, sleeps, logged>>
    /\ UNCHANGED <<task_vars, index_vars, downstream>>

\* main.rs:539-551: func().await returns; Ok is returned at once, Err is
\* logged and, on the last attempt, replaced by the maximum-attempts error.
RetryFunc ==
    /\ retry_pc = "func"
    /\ \E r \in FuncResults :
         /\ func_calls' = Append(func_calls, r)
         /\ IF IsOk(r)
            THEN /\ retry_pc' = "returned"
                 /\ retry_result' = Some(r)
                 /\ UNCHANGED logged
            ELSE /\ logged' = Append(logged,
                                     StructuredLogError(RetryNetwork, r[2]))
                 /\ IF IsLastAttempt(retry_i, attempts)
                    THEN /\ retry_pc' = "returned"
                         /\ retry_result' = Some(MaxAttemptsError(attempts))
                    ELSE /\ retry_pc' = "sleep"
                         /\ UNCHANGED retry_result
    /\ UNCHANGED <<attempts, interval, retry_i, sleeps>>
    /\ UNCHANGED <<task_vars, index_vars, downstream>>

\* main.rs:552: sleep(interval).await returns; the loop goes on with i + 1.
RetrySleep ==
    /\ retry_pc = "sleep"
    /\ sleeps' = Append(sleeps, interval)
    /\ retry_i' = retry_i + 1
    /\ retry_pc' = "for"
    /\ UNCHANGED <<attempts, interval, func_calls, logged, retry_result>>
    /\ UNCHANGED <<task_vars, index_vars, downstream>>

RetryNext ==
    \/ RetryFor
    \/ RetryFunc
    \/ RetrySleep

\* A single call of retry, for every attempts and interval argument and
\* every behaviour of func.
RetrySpec == RetryInit /\ [][RetryNext]_vars

\* -------------------------------------------------------- filter_builder
\* events/mod.rs:11-32
EventType ==
    {"UNKNOWN", "TBD", "TransferERC20", "HolographableTransferERC20",
     "TransferERC721", "HolographableTransferERC721",
     "TransferSingleERC1155", "HolographableTransferSingleERC1155",
     "TransferBatchERC1155", "HolographableTransferBatchERC1155",
     "BridgeableContractDeployed", "CrossChainMessageSent",
     "AvailableOperatorJob", "FinishedOperatorJob", "FailedOperatorJob",
     "PacketLZ", "V1PacketLZ", "TestLzEvent", "HolographableContractEvent"}

\* One element of all_filters: the key and the arguments given to
\* build_event_filter.
FilterEntry(e, name, type) ==
    [event_type |-> e, contract_name |-> name, contract_type |-> type]

\* main.rs:465-512, in order.
AllFilters ==
    <<FilterEntry("TransferERC20", None, Some("ERC20")),
      FilterEntry("TransferERC721", None, Some("ERC721")),
      FilterEntry("TransferSingleERC1155", None, Some("ERC1155")),
      FilterEntry("TransferBatchERC1155", None, Some("ERC1155")),
      FilterEntry("BridgeableContractDeployed", Some("factory"), None),
      FilterEntry("HolographableContractEvent", Some("registry"), None),
      FilterEntry("CrossChainMessageSent", Some("operator"), None),
      FilterEntry("AvailableOperatorJob", Some("operator"), None),
      FilterEntry("FinishedOperatorJob", Some("operator"), None),
      FilterEntry("FailedOperatorJob", Some("operator"), None)>>

\* main.rs:458-460: contract_name.and_then(|name| contracts.get(name))
\*                    .map(|contract| contract.address().to_string())
TargetAddress(m, contract_name) ==
    IF contract_name # None /\ contract_name[1] \in DOMAIN m
    THEN Some(m[contract_name[1]])
    ELSE None

\* main.rs:442-451: the placeholder body, vec![], whatever the arguments.
BuildFilter(bloom_type, event_type, target_address, contract_type) == <<>>

\* The arguments of the build_filter call made for entry f (main.rs:462).
BuildFilterCall(m, f) ==
    [bloom_type |-> "TOPIC", event_type |-> f.event_type,
     contract_name |-> f.contract_name,
     target_address |-> TargetAddress(m, f.contract_name),
     contract_type |-> f.contract_type]

RECURSIVE InsertFilters(_, _, _)
\* main.rs:518-520: for (event, filter) in all_filters.drain(..)
InsertFilters(filters, m, fs) ==
    IF fs = <<>> THEN filters
    ELSE LET c == BuildFilterCall(m, Head(fs))
         IN InsertFilters(Insert(filters, c.event_type,
                                 BuildFilter(c.bloom_type, c.event_type,
                                             c.target_address,
                                             c.contract_type)),
                          m, Tail(fs))

\* filter_builder is called on a monitor whose contracts are resolved up to
\* some point of ContractOrder.
FilterInit ==
    /\ TasksInit
    /\ contracts \in UNION {ContractsResolved(n) : n \in 0..Len(ContractOrder)}
    /\ bloom_filters = <<>>
    /\ build_filter_calls = {}
    /\ logs_fetched = {}
    /\ handed_over = <<>>
    /\ RetryIdle

\* main.rs:453-521: filter_builder runs from its first line to its last.
FilterBuilder ==
    /\ bloom_filters' = InsertFilters(bloom_filters, contracts, AllFilters)
    /\ build_filter_calls' =
         build_filter_calls
         \cup {BuildFilterCall(contracts, AllFilters[k]) :
                  k \in 1..Len(AllFilters)}
    /\ UNCHANGED <<contracts, task_vars, downstream, retry_vars>>

FilterNext == FilterBuilder

\* One or more calls of filter_builder, for every contracts map.
FilterSpec == FilterInit /\ [][FilterNext]_vars

\* ---------------------------------------------------- reading the history
Queue == IF "optimism" \in DOMAIN block_jobs THEN block_jobs["optimism"] ELSE <<>>

\* The current notification (seg is not empty): its height and last_block
\* when it arrived.
ObsH == seg[1].h
ObsPrev == seg[1].prev

\* What the watcher has done for the current notification, in order.
Done == Tail(seg)

\* The watcher has finished the loop iteration of the current notification.
SegComplete == wpc \in {"next", "get_block", "ended", "panicked"}

ObsDuplicate == ObsPrev = Some(ObsH)
ObsRegression == ObsPrev # None /\ ObsH < ObsPrev[1]
ObsGap == ObsPrev # None /\ ObsH > ObsPrev[1] + 1

KindH(s) == [k \in 1..Len(s) |-> <<s[k].ev, s[k].h>>]
IsPrefix(s, t) == Len(s) <= Len(t) /\ s = SubSeq(t, 1, Len(s))
IntRange(a, b) == [k \in 1..(b - a + 1) |-> a + k - 1]

\* ----------------------------------------------------------------- claims
\* C1: no height skipped.  Once the watcher has handled its observations,
\* the heights of the jobs it enqueued, duplicates removed, are the full
\* range from the first observed height to the last one, ascending.  (Stated
\* for the sequences that end at their highest height, where the range from
\* the first to the last height is the range of the heights seen.)
C1_NoHeightSkipped ==
    (/\ seg # <<>>
     /\ wpc \in {"next", "ended"}
     /\ ObsH = max_obs[1])
    => enq = IntRange(first_obs[1], ObsH)

\* C2: the consumer takes the oldest job: when it has popped a job, no job
\* that was enqueued earlier is still in the queue.
C2_OldestFirst ==
    block_job # None =>
        \A k \in 1..Len(Queue) : Queue[k].id > block_job[1].id

\* C3: a regression (observed height below the last recorded one) enqueues
\* no job, writes no height, sends no new-block notification and, once
\* handled, has sent an anomaly notification.
C3_RegressionNoJob ==
    (seg # <<>> /\ ObsRegression) =>
        /\ SelectEv(Done, {"job", "height", "new_block"}) = <<>>
        /\ SegComplete => SelectEv(Done, {"anomaly"}) # <<>>

\* C4: every write to CurrentHeight stores a value strictly greater than the
\* value stored before.
C4_HeightStrictlyIncreasing ==
    \A k \in 1..Len(seg) :
        (seg[k].ev = "height" /\ seg[k].prev # None) => seg[k].h > seg[k].prev[1]

\* C5: an observation equal to the last recorded height makes the watcher do
\* nothing (no job, no notification, no height write: CurrentHeight stays),
\* so that a height fed twice in a row has the one job of its first
\* notification and no other.
C5_DuplicateIsNoOp ==
    seg # <<>> =>
        /\ ObsDuplicate =>
              /\ Done = <<>>
              /\ Get(current_block_height, "optimism") = Some(ObsH)
        /\ (~ObsDuplicate /\ SegComplete) =>
              Cardinality({k \in 1..Len(Done) :
                             Done[k].ev = "job" /\ Done[k].h = ObsH}) = 1

\* C5 witness: the watcher has just skipped a duplicate notification.
C5_Witness == seg # <<>> /\ ObsDuplicate /\ wpc = "next"

\* C6: the queue never holds two jobs of the same height.
C6_NoDuplicateQueued ==
    \A k, m \in 1..Len(Queue) : k # m => Queue[k].block # Queue[m].block

\* C7: the block_jobs lock is not held while process_block's chain call is
\* in progress nor while the consumer sleeps.
C7_ShortCriticalSections ==
    (in_process # {} \/ cpc = "sleep") => bj_lock = "free"

\* C8: at most one process_block call is active, and while one is active the
\* consumer is waiting for it to return.
C8_SerialProcessing ==
    /\ Cardinality(in_process) <= 1
    /\ in_process # {} => cpc = "process_block"

\* C8 witness: a second job is in process_block.
C8_Witness ==
    /\ in_process # {}
    /\ Cardinality({i \in 1..Len(handled) : handled[i] >= 1}) >= 2

\* Every enqueued job is in exactly one place: the queue, the consumer's
\* hands, or handed to process_block (once).
ExactlyOnce ==
    \A i \in 1..Len(handled) :
        Cardinality({k \in 1..Len(Queue) : Queue[k].id = i})
        + (IF block_job # None /\ block_job[1].id = i THEN 1 ELSE 0)
        + handled[i] = 1

AllHandled == \A i \in 1..Len(handled) : handled[i] >= 1

\* C9: every enqueued job is consumed exactly once, and under fair
\* scheduling with chain calls that return every enqueued job is eventually
\* handed to process_block: whatever has been enqueued, a moment comes when
\* all of it has been handed over.
C9_ConsumedExactlyOnce == []ExactlyOnce /\ []<>AllHandled

\* C9 witness: the consumer sleeps with every job handed over, among them a
\* job that it did not find in an earlier drain.
C9_Witness ==
    /\ Len(handled) >= 2
    /\ AllHandled
    /\ cpc = "sleep"

\* C10: for a gap observation H > last+1 the watcher sends the resuming
\* notification, then enqueues last+1, ..., H-1 in ascending order, then H,
\* and nothing else: H - last jobs in all.
C10_GapRecoveryOrder ==
    (seg # <<>> /\ ObsGap) =>
        LET did == KindH(SelectEv(Done, {"resuming", "job"}))
            want == <<<<"resuming", ObsH>>>>
                    \o [k \in 1..(ObsH - ObsPrev[1]) |-> <<"job", ObsPrev[1] + k>>]
        IN /\ IsPrefix(did, want)
           /\ SegComplete => did = want

\* C10 witness: a gap observation has been handled.
C10_Witness == seg # <<>> /\ ObsGap /\ SegComplete

\* Every call of func so far failed.
AllFailed == \A k \in 1..Len(func_calls) : ~IsOk(func_calls[k])

\* C11: when func fails on every call and attempts = N >= 1, retry calls
\* func exactly N times, sleeps exactly N - 1 times (never after the last
\* attempt) and returns the maximum-attempts error.
C11_RetryExhausted ==
    /\ (retry_pc = "returned" /\ attempts >= 1 /\ AllFailed) =>
          /\ Len(func_calls) = attempts
          /\ Len(sleeps) = attempts - 1
          /\ retry_result = Some(MaxAttemptsError(attempts))
    /\ Len(sleeps) <= Len(func_calls)
    /\ Len(sleeps) < attempts \/ attempts = 0

C11_Witness ==
    /\ retry_pc = "returned"
    /\ attempts >= 2
    /\ AllFailed
    /\ Len(func_calls) = attempts
    /\ retry_result = Some(MaxAttemptsError(attempts))

\* A watcher, log or consumer task that ended by a panic.
Panicked(pc) == pc = "panicked"

\* C12: a failed chain call in the watcher (watch_blocks, get_block) or in
\* process_block never terminates the task it happens in.
C12_ErrorsAreLocal == ~Panicked(wpc) /\ ~Panicked(cpc)

\* C13: a block fetch is re-attempted before its failure is surfaced: a
\* process_block call that sees an error has fetched more than once.
C13_FetchRetried ==
    \A c \in in_process :
        (c.block_with_txs # None /\ c.block_with_txs[1].kind = "err")
            => c.fetches > 1

\* The process_block call c returns in this step.
Returns(c) == c.block_with_txs # None /\ c \notin in_process'

\* C14: when the block fetch of a job ends in an error, the job is
\* dropped: it is not put back, the queue is unchanged, and the consumer
\* goes on to pop the next job.
C14_ErrorJobDropped ==
    [][\A c \in in_process :
         (Returns(c) /\ c.block_with_txs[1].kind = "err") =>
             /\ block_jobs' = block_jobs
             /\ \A k \in 1..Len(Queue') : Queue'[k].id # c.job.id
             /\ cpc' = "pop"]_vars

C14_Witness ==
    /\ Len(Queue) >= 1
    /\ cpc = "process_block"
    /\ \E c \in in_process :
         c.block_with_txs # None /\ c.block_with_txs[1].kind = "err"

\* C15: when the block of a job is unavailable (Ok(None)), process_block
\* returns normally, hands nothing downstream, leaves the height table and
\* the queue unchanged, and the consumer goes on.
C15_NoBlockIsSkipped ==
    [][\A c \in in_process :
         (Returns(c) /\ c.block_with_txs[1].kind = "no_block") =>
             /\ handed_over' = handed_over
             /\ logs_fetched' = logs_fetched
             /\ current_block_height' = current_block_height
             /\ block_jobs' = block_jobs
             /\ cpc' = "pop"
             /\ mon_lock' = "free"]_vars

C15_Witness ==
    /\ Len(Queue) >= 1
    /\ current_block_height # <<>>
    /\ cpc = "process_block"
    /\ \E c \in in_process :
         c.block_with_txs # None /\ c.block_with_txs[1].kind = "no_block"

\* The event kinds the index is to hold a fingerprint for: the transfer
\* kinds with their holographable variants, bridgeable-contract-deployed,
\* cross-chain-message-sent, the three operator-job kinds and
\* holographable-contract-event.
CatalogKinds ==
    EventType \ {"UNKNOWN", "TBD", "PacketLZ", "V1PacketLZ", "TestLzEvent"}

\* C16: once the index is built its keys are exactly the event kinds of
\* the catalog.
C16_IndexCoversCatalog ==
    bloom_filters # <<>> => DOMAIN bloom_filters = CatalogKinds

\* C17: the index is not built when the contract of a role named by an
\* event kind is unresolved: no filter is built with an absent target
\* address for an event kind that names a contract.
C17_NoAbsentTarget ==
    \A c \in build_filter_calls :
        c.contract_name # None => c.target_address # None

\* C18: when a block whose logs truly hold a protocol event has been
\* processed, its logs were fetched and the matching transactions were
\* handed downstream.
C18_EventsAreHandedOver ==
    [][\A c \in in_process :
         (Returns(c) /\ c.block_with_txs[1].events # {}) =>
             /\ c.job.block \in logs_fetched'
             /\ handed_over' # handed_over]_vars

\* C19: when initialization fails, run returns with no watcher, log or
\* consumer task started, no job enqueued or processed and an empty height
\* table.
C19_StartupErrorIsFatal ==
    main_pc = "failed" =>
        /\ wpc = "not_spawned" /\ lpc = "not_spawned" /\ cpc = "not_spawned"
        /\ block_jobs = <<>>
        /\ handled = <<>>
        /\ in_process = {}
        /\ current_block_height = <<>>

C19_Witness ==
    main_pc = "failed" /\ DOMAIN contracts = {"holograph", "bridge"}

\* The number of the events of the given kind the watcher has produced for
\* the current notification.
Count(kind) == Len(SelectEv(Done, {kind}))

\* The current notification is the first one, or is one above last_block.
ObsNext == ObsPrev = None \/ (ObsPrev # None /\ ObsH = ObsPrev[1] + 1)

\* C20: on the first observed height H, and on H = last + 1, the watcher
\* enqueues exactly one job, BlockJob(H), sets CurrentHeight to H and sends
\* exactly one new-block notification; no gap notification, no other job.
C20_NextHeightOneJob ==
    (seg # <<>> /\ ObsNext) =>
        /\ \A k \in 1..Len(Done) :
              Done[k].ev \in {"height", "job", "new_block"} /\ Done[k].h = ObsH
        /\ Count("height") <= 1 /\ Count("job") <= 1 /\ Count("new_block") <= 1
        /\ SegComplete =>
              /\ Count("height") = 1 /\ Count("job") = 1 /\ Count("new_block") = 1
              /\ Get(current_block_height, "optimism") = Some(ObsH)

C20_Witness ==
    /\ seg # <<>>
    /\ ObsPrev # None /\ ObsH = ObsPrev[1] + 1
    /\ wpc = "next"
    /\ Count("job") = 1

\* The heights of all jobs appended to the queue so far.
Enqueued == {enq[k] : k \in 1..Len(enq)}

\* C21: H is recorded as CurrentHeight only after BlockJob(H) has been
\* appended to the queue.
C21_HeightAfterJob ==
    \A n \in DOMAIN current_block_height :
        current_block_height[n] \in Enqueued

\* C23: when func first succeeds on its k-th call, 1 <= k <= attempts,
\* retry returns the result of that call after exactly k calls and k - 1
\* sleeps, and each failed call was logged with the network before the
\* sleep that followed it.
C23_RetrySuccess ==
    LET k == Len(func_calls) IN
    /\ (retry_pc = "returned" /\ k >= 1 /\ func_calls[k][1] = "Ok") =>
          /\ k <= attempts
          /\ retry_result = Some(func_calls[k])
          /\ Len(sleeps) = k - 1
          /\ logged = [j \in 1..(k - 1) |->
                         StructuredLogError(RetryNetwork, func_calls[j][2])]
    /\ \A j \in 1..(k - 1) : func_calls[j][1] = "Err"
    /\ Len(sleeps) <= Len(logged)
    /\ retry_pc = "sleep" => Len(logged) = Len(sleeps) + 1

C23_Witness ==
    /\ retry_pc = "returned"
    /\ Len(func_calls) >= 2
    /\ Len(func_calls) < attempts
    /\ retry_result = Some(Ok("value"))

\* The index filter_builder builds from the resolved contracts.
BuiltIndex == InsertFilters(<<>>, contracts, AllFilters)

\* C24: the index is built during initialization, before the consumer
\* processes its first job: at every process_block call the index holds
\* the filters built from the resolved contracts.
C24_IndexBuiltAtStartup ==
    in_process # {} => bloom_filters = BuiltIndex

\* C28: with attempts = 0 retry never calls func and never sleeps, and
\* returns the error that follows the loop, not the maximum-attempts error.
C28_RetryZeroAttempts ==
    attempts = 0 =>
        /\ func_calls = <<>>
        /\ sleeps = <<>>
        /\ logged = <<>>
        /\ retry_pc \in {"for", "returned"}
        /\ retry_pc = "returned" => retry_result = Some(UnexpectedError)

C28_Witness ==
    attempts = 0 /\ retry_pc = "returned" /\ retry_result # None

\* The process_block call c reads the height table in this step.
ReadsHeight(c) ==
    /\ c \in in_process'
    /\ c \notin in_process
    /\ c.is_recent_block # None

\* The height recorded for network n, 0 when there is none.
Recorded(n) ==
    IF n \in DOMAIN current_block_height THEN current_block_height[n] ELSE 0

\* C22: is_recent_block is (current_height - job.block) < 5 on the integer
\* difference, for every job the consumer can dequeue, also for a job
\* above the recorded height.
C22_RecencyIsIntegerDifference ==
    [][\A c \in in_process' :
         ReadsHeight(c) =>
             c.is_recent_block[1]
                 = (Recorded(c.job.network) - c.job.block < RecencyWindow)]_vars

\* C26: when process_block reads CurrentHeight, the height of its job is
\* at most the height recorded for the job's network.
C26_JobNotAboveHeight ==
    [][\A c \in in_process' :
         ReadsHeight(c) =>
             /\ c.job.network \in DOMAIN current_block_height
             /\ c.job.block <= current_block_height[c.job.network]]_vars

\* The heights of the jobs enqueued for the current notification, in order.
JobHeights == [k \in 1..Count("job") |-> SelectEv(Done, {"job"})[k].h]

\* The block lookup of the current notification gave no block, or a block
\* without a number.
ObsNoNumber == seg[1].ev = "obs_no_number"

\* C27: a notification whose lookup gives no block number is an
\* observation of height 0: unless last_block is 0 already, BlockJob(0) is
\* enqueued and CurrentHeight becomes 0; and a height H > 1 observed when
\* last_block is 0 enqueues every height from 1 to H.
C27_NoNumberIsHeightZero ==
    seg # <<>> =>
        /\ ObsNoNumber =>
              /\ ObsH = 0
              /\ ObsPrev = Some(0) => Done = <<>>
              /\ (ObsPrev # Some(0) /\ SegComplete) =>
                    /\ JobHeights = <<0>>
                    /\ Get(current_block_height, "optimism") = Some(0)
        /\ (ObsPrev = Some(0) /\ ObsH > 1 /\ SegComplete) =>
              JobHeights = IntRange(1, ObsH)

C27_Witness ==
    /\ seg # <<>>
    /\ ObsNoNumber
    /\ ObsPrev # None /\ ObsPrev # Some(0)
    /\ wpc = "next"
    /\ JobHeights = <<0>>

\* The watcher waits at a send on the full channel or for the block_jobs
\* mutex.
WatcherBlocked ==
    \/ wpc \in {"gap_log", "new_log"} /\ Len(rx) = ChannelCapacity
    \/ wpc \in {"gap_push", "push_job"} /\ bj_lock # "free"

\* The log task waits for the monitor mutex.
LogBlocked == lpc = "lock_monitor" /\ mon_lock # "free"

\* The consumer waits for the block_jobs mutex or for the monitor mutex.
ConsumerBlocked ==
    \/ cpc = "lock" /\ bj_lock # "free"
    \/ cpc = "lock_monitor" /\ mon_lock # "free"

\* C25: no task stays blocked forever when the chain calls return: a
\* blocked watcher, log task or consumer is unblocked again, and a full
\* log channel clears, also while the consumer holds the monitor mutex.
C25_NoDeadlock ==
    /\ []<>(~WatcherBlocked)
    /\ []<>(~LogBlocked)
    /\ []<>(~ConsumerBlocked)
    /\ []<>(Len(rx) < ChannelCapacity)

C25_Witness ==
    /\ Len(rx) = ChannelCapacity
    /\ wpc \in {"gap_log", "new_log"}
    /\ lpc = "lock_monitor"
    /\ mon_lock = "consumer"
    /\ in_process # {}

=============================================================================
